---------------------------- MODULE Spec2Model ----------------------------
(***************************************************************************)
(* A model of gridwxcomp's prep_input.py: the gridMET centroid transform,  *)
(* the reading of the station list, the nearest-neighbour match of every   *)
(* station to a gridMET cell and the merge that writes the output table.   *)
(*                                                                         *)
(* Python floats are IEEE-754 binary64 numbers.  They are modelled exactly:*)
(* a float is a sign, a 53 bit mantissa and an exponent, and every         *)
(* arithmetic operation rounds its exact result to the nearest float, ties *)
(* to even.  Mantissas do not fit TLC's integers, so they are kept as      *)
(* little-endian sequences of 15 bit limbs.                                *)
(***************************************************************************)
EXTENDS Integers, Sequences, FiniteSets, TLC

(***************************************************************************)
(* Evaluation: Bind applies an operator to the values of its arguments, so *)
(* that an argument is computed once however often the operator reads it.  *)
(***************************************************************************)
Bind1(Op(_), a) == CHOOSE r \in {Op(x) : x \in {a}} : TRUE
Bind2(Op(_, _), a, b) == CHOOSE r \in {Op(x, y) : x \in {a}, y \in {b}} : TRUE
Bind3(Op(_, _, _), a, b, c) ==
    CHOOSE r \in {Op(x, y, z) : x \in {a}, y \in {b}, z \in {c}} : TRUE
Bind4(Op(_, _, _, _), a, b, c, d) ==
    CHOOSE r \in {Op(w, x, y, z) : w \in {a}, x \in {b}, y \in {c}, z \in {d}} : TRUE

(***************************************************************************)
(* Natural numbers of any size: little-endian limb sequences, no leading   *)
(* zero limb, <<>> is zero.                                                *)
(***************************************************************************)
LimbBits == 15
Base == 2^LimbBits
MantBits == 53

Limb(a, i) == IF i <= Len(a) THEN a[i] ELSE 0

Min(x, y) == IF x <= y THEN x ELSE y

RECURSIVE BTrim(_)
BTrimV(a) ==
    IF Len(a) = 0 THEN a
    ELSE IF a[Len(a)] = 0 THEN BTrim(SubSeq(a, 1, Len(a) - 1))
    ELSE a
BTrim(a) == Bind1(BTrimV, a)

BFromIntV(n) == BTrim(<<n % Base, (n \div Base) % Base, n \div (Base * Base)>>)
BFromInt(n) == Bind1(BFromIntV, n)

BToIntV(a) == Limb(a, 1) + Base * Limb(a, 2)
BToInt(a) == Bind1(BToIntV, a)

RECURSIVE BAddC(_, _, _, _)
BAddCV(a, b, i, c) ==
    IF i > Len(a) /\ i > Len(b)
    THEN IF c = 0 THEN <<>> ELSE <<c>>
    ELSE <<(Limb(a, i) + Limb(b, i) + c) % Base>>
         \o BAddC(a, b, i + 1, (Limb(a, i) + Limb(b, i) + c) \div Base)
BAddC(a, b, i, c) == Bind4(BAddCV, a, b, i, c)

BAdd(a, b) == BAddC(a, b, 1, 0)

\* a - b for a >= b
RECURSIVE BSubC(_, _, _, _)
BSubCV(a, b, i, c) ==
    IF i > Len(a) THEN <<>>
    ELSE IF a[i] - Limb(b, i) - c < 0
    THEN <<a[i] - Limb(b, i) - c + Base>> \o BSubC(a, b, i + 1, 1)
    ELSE <<a[i] - Limb(b, i) - c>> \o BSubC(a, b, i + 1, 0)
BSubC(a, b, i, c) == Bind4(BSubCV, a, b, i, c)

BSub(a, b) == BTrim(BSubC(a, b, 1, 0))

\* -1, 0 or 1 as a < b, a = b, a > b
RECURSIVE BCmpAt(_, _, _)
BCmpAtV(a, b, i) ==
    IF i = 0 THEN 0
    ELSE IF a[i] < b[i] THEN -1
    ELSE IF a[i] > b[i] THEN 1
    ELSE BCmpAt(a, b, i - 1)
BCmpAt(a, b, i) == Bind3(BCmpAtV, a, b, i)

BCmpV(a, b) ==
    IF Len(a) < Len(b) THEN -1
    ELSE IF Len(a) > Len(b) THEN 1
    ELSE BCmpAt(a, b, Len(a))
BCmp(a, b) == Bind2(BCmpV, a, b)

\* a * c for a limb c
RECURSIVE BMulSmallC(_, _, _, _)
BMulSmallCV(a, c, i, carry) ==
    IF i > Len(a)
    THEN IF carry = 0 THEN <<>> ELSE <<carry>>
    ELSE <<(a[i] * c + carry) % Base>>
         \o BMulSmallC(a, c, i + 1, (a[i] * c + carry) \div Base)
BMulSmallC(a, c, i, carry) == Bind4(BMulSmallCV, a, c, i, carry)

BMulSmallV(a, c) == IF c = 0 THEN <<>> ELSE BMulSmallC(a, c, 1, 0)
BMulSmall(a, c) == Bind2(BMulSmallV, a, c)

BShlLimbsV(a, k) == IF Len(a) = 0 THEN a ELSE [i \in 1..k |-> 0] \o a
BShlLimbs(a, k) == Bind2(BShlLimbsV, a, k)

RECURSIVE BMulAt(_, _, _)
BMulAtV(a, b, i) ==
    IF i > Len(b) THEN <<>>
    ELSE BAdd(BShlLimbs(BMulSmall(a, b[i]), i - 1), BMulAt(a, b, i + 1))
BMulAt(a, b, i) == Bind3(BMulAtV, a, b, i)

BMul(a, b) == BMulAt(a, b, 1)

\* a * 2^n
BShlV(a, n) == BShlLimbs(BMulSmall(a, 2^(n % LimbBits)), n \div LimbBits)
BShl(a, n) == Bind2(BShlV, a, n)

\* a \div 2^n
BShrLow(d, r) ==
    BTrim([i \in 1..Len(d) |->
              (d[i] \div 2^r) + (Limb(d, i + 1) % 2^r) * 2^(LimbBits - r)])
BShrV(a, n) ==
    Bind2(BShrLow,
          IF n \div LimbBits >= Len(a) THEN <<>>
          ELSE SubSeq(a, (n \div LimbBits) + 1, Len(a)),
          n % LimbBits)
BShr(a, n) == Bind2(BShrV, a, n)

BitLenSmall(x) == CHOOSE n \in 1..LimbBits : 2^(n - 1) <= x /\ x < 2^n

BitLenV(a) ==
    IF Len(a) = 0 THEN 0
    ELSE LimbBits * (Len(a) - 1) + BitLenSmall(a[Len(a)])
BitLen(a) == Bind1(BitLenV, a)

(***************************************************************************)
(* binary64 floats: s is the sign (-1, 0, 1), the value is s * m * 2^e     *)
(* with 2^52 <= m < 2^53, and zero is FZero.                               *)
(***************************************************************************)
FZero == [s |-> 0, m |-> <<>>, e |-> 0]

\* q rounded up or not, then renormalised: q has MantBits bits
RoundUp(s, q, e, up) ==
    Bind1(LAMBDA q2 : IF BitLen(q2) > MantBits
                      THEN [s |-> s, m |-> BShr(q2, 1), e |-> e + 1]
                      ELSE [s |-> s, m |-> q2, e |-> e],
          IF up THEN BAdd(q, <<1>>) ELSE q)

\* M = q * 2^r + rem: up when rem is more than half of 2^r, or half and q is odd
RoundCut(s, M, e, r, q) ==
    Bind1(LAMBDA c : RoundUp(s, q, e + r, c = 1 \/ (c = 0 /\ q[1] % 2 = 1)),
          BCmp(BSub(M, BShl(q, r)), BShl(<<1>>, r - 1)))

RoundLen(s, M, e, L) ==
    IF L <= MantBits
    THEN [s |-> s, m |-> BShl(M, MantBits - L), e |-> e - (MantBits - L)]
    ELSE RoundCut(s, M, e, L - MantBits, BShr(M, L - MantBits))

\* The float nearest to s * M * 2^e, ties to even
RoundV(s, M, e) ==
    IF Len(M) = 0 \/ s = 0 THEN FZero
    ELSE Bind4(RoundLen, s, M, e, BitLen(M))
Round(s, M, e) == Bind3(RoundV, s, M, e)

fnegV(a) == [a EXCEPT !.s = -a.s]
fneg(a) == Bind1(fnegV, a)

fabsV(a) == [a EXCEPT !.s = IF a.s = 0 THEN 0 ELSE 1]
fabs(a) == Bind1(fabsV, a)

\* a + b for the mantissas A and B at a common exponent e
faddAligned(a, b, e, AB) ==
    IF a.s = b.s THEN Round(a.s, BAdd(AB[1], AB[2]), e)
    ELSE Bind1(LAMBDA c : IF c = 0 THEN FZero
                          ELSE IF c = 1 THEN Round(a.s, BSub(AB[1], AB[2]), e)
                          ELSE Round(b.s, BSub(AB[2], AB[1]), e),
               BCmp(AB[1], AB[2]))

faddV(a, b) ==
    IF a.s = 0 THEN b
    ELSE IF b.s = 0 THEN a
    ELSE Bind4(faddAligned, a, b, Min(a.e, b.e),
               <<BShl(a.m, a.e - Min(a.e, b.e)), BShl(b.m, b.e - Min(a.e, b.e))>>)
fadd(a, b) == Bind2(faddV, a, b)

fsub(a, b) == fadd(a, fneg(b))

fmulV(a, b) ==
    IF a.s = 0 \/ b.s = 0 THEN FZero
    ELSE Round(a.s * b.s, BMul(a.m, b.m), a.e + b.e)
fmul(a, b) == Bind2(fmulV, a, b)

\* n steps of the long division of R by D: a step yields one more bit of the
\* quotient q and doubles what remains
RECURSIVE DivSteps(_, _, _)
DivStep(st, D, n) ==
    IF n = 0 THEN st
    ELSE IF BCmp(st.R, D) >= 0
    THEN DivSteps([R |-> BMulSmall(BSub(st.R, D), 2),
                   q |-> BAdd(BMulSmall(st.q, 2), <<1>>)], D, n - 1)
    ELSE DivSteps([R |-> BMulSmall(st.R, 2), q |-> BMulSmall(st.q, 2)], D, n - 1)
DivSteps(st, D, n) == Bind3(DivStep, st, D, n)

Div8(st, D) == DivSteps(st, D, 8)

\* The first MantBits + 3 = 56 bits of R / D for R < 2 * D, then a sticky bit
\* for what remains
DivSticky(st) == BAdd(BMulSmall(st.q, 2), IF Len(st.R) = 0 THEN <<>> ELSE <<1>>)

DivBits(R, D) ==
    Bind1(DivSticky,
          Div8(Div8(Div8(Div8(Div8(Div8(Div8([R |-> R, q |-> <<>>],
               D), D), D), D), D), D), D))

\* a / b for b # 0
fdivV(a, b) ==
    IF a.s = 0 THEN FZero
    ELSE Round(a.s * b.s, DivBits(a.m, b.m), a.e - b.e - (MantBits + 3))
fdiv(a, b) == Bind2(fdivV, a, b)

\* int(a) for a >= 0: truncation
ftruncV(a) ==
    IF a.s = 0 THEN 0
    ELSE IF a.e >= 0 THEN BToInt(BShl(a.m, a.e))
    ELSE BToInt(BShr(a.m, -a.e))
ftrunc(a) == Bind1(ftruncV, a)

\* float(n) for an int n
IntToFV(n) ==
    IF n = 0 THEN FZero
    ELSE Round(IF n < 0 THEN -1 ELSE 1, BFromInt(IF n < 0 THEN -n ELSE n), 0)
IntToF(n) == Bind1(IntToFV, n)

\* -1, 0 or 1 as a < b, a = b, a > b (the operands are normalised)
FCmpV(a, b) ==
    IF a.s # b.s THEN (IF a.s < b.s THEN -1 ELSE 1)
    ELSE IF a.s = 0 THEN 0
    ELSE IF a.e # b.e THEN (IF a.e < b.e THEN -a.s ELSE a.s)
    ELSE a.s * BCmp(a.m, b.m)
FCmp(a, b) == Bind2(FCmpV, a, b)

FLt(a, b) == FCmp(a, b) < 0
FLe(a, b) == FCmp(a, b) <= 0

\* float('nan'), what pandas reads from an empty cell
FNaN == [s |-> 2, m |-> <<>>, e |-> 0]

(***************************************************************************)
(* gridMET_centroid and its three constants                                *)
(***************************************************************************)
\* -124.78749996666667 = -0x1.f326666429bcep+6
gridmet_lon == [s |-> -1, m |-> <<7118, 19589, 18841, 249>>, e |-> -46]
\* 25.04583333333334 = 0x1.90bbbbbbbbbbep+4
gridmet_lat == [s |-> 1, m |-> <<15294, 30583, 12014, 200>>, e |-> -48]
\* 0.041666666666666664 = 0x1.5555555555555p-5
gridmet_cs == [s |-> 1, m |-> <<21845, 10922, 21845, 170>>, e |-> -57]

\* int(abs(x - origin) / gridmet_cs) * gridmet_cs + origin + gridmet_cs/2
gridcell_axis(x, origin) ==
    fadd(fadd(fmul(IntToF(ftrunc(fdiv(fabs(fsub(x, origin)), gridmet_cs))),
                   gridmet_cs),
              origin),
         fdiv(gridmet_cs, IntToF(2)))

\* int(float('nan')) raises ValueError; otherwise the pair of floats
gridMET_centroid(lat, lon) ==
    IF lat = FNaN \/ lon = FNaN
    THEN [raised |-> "ValueError", lat |-> FNaN, lon |-> FNaN]
    ELSE [raised |-> "none",
          lat |-> gridcell_axis(lat, gridmet_lat),
          lon |-> gridcell_axis(lon, gridmet_lon)]

(***************************************************************************)
(* Strings are sequences of characters, so that str.split and the          *)
(* substring test `station in s` are computed.                             *)
(***************************************************************************)
\* s.split('_')[0]
SplitFirst(s) ==
    LET at == {i \in 1..Len(s) : s[i] = "_"}
    IN  IF at = {} THEN s
        ELSE SubSeq(s, 1, (CHOOSE i \in at : \A j \in at : i <= j) - 1)

\* sub in s
Contains(s, sub) ==
    \E i \in 0..(Len(s) - Len(sub)) : SubSeq(s, i + 1, i + Len(sub)) = sub

\* os.path.abspath(os.path.join(path_root, match))
AbsPath(match) == <<"/">> \o match

\* 'merged_input.csv'
merged_input_csv ==
    <<"m","e","r","g","e","d","_","i","n","p","u","t",".","c","s","v">>

\* 'gridmet_cell_data.csv'
gridmet_cell_data_csv == "gridmet_cell_data.csv"

(***************************************************************************)
(* read_station_list: the condensed station list, every station's name     *)
(* replaced by the path of the first listed file whose name contains it.   *)
(* [s for s in file_names if station in s][0] raises IndexError when no    *)
(* file name contains the station's name.                                  *)
(***************************************************************************)
NaNId == <<>>

StationRow(r) ==
    [FID               |-> r.FID,
     STATION_LAT       |-> r.LATDECDEG,
     STATION_LON       |-> r.LONGDECDEG,
     STATION_ELEV_M    |-> r.Elev_m,
     STATION_FILE_PATH |-> SplitFirst(r.FileName),
     GRIDMET_ID        |-> NaNId]

\* Keeps every listed file, whatever its name
EveryListedFile(listing, station) == listing

\* [s for s in file_names if station in s]
MatchingFiles(listing, station) ==
    SelectSeq(listing, LAMBDA f : Contains(f, station))

RECURSIVE MatchLoop(_, _, _)
MatchLoop(list, file_names, i) ==
    IF i > Len(list) THEN [raised |-> "none", rows |-> list]
    ELSE LET station == list[i].STATION_FILE_PATH
             found   == MatchingFiles(file_names, station)
         IN  IF Len(found) = 0
             THEN [raised |-> "IndexError", rows |-> list]
             ELSE MatchLoop(
                     [n \in 1..Len(list) |->
                         IF list[n].STATION_FILE_PATH = station
                         THEN [list[n] EXCEPT !.STATION_FILE_PATH = AbsPath(found[1])]
                         ELSE list[n]],
                     file_names, i + 1)

read_station_list(csv, file_names) ==
    MatchLoop([n \in 1..Len(csv) |-> StationRow(csv[n])], file_names, 1)

(***************************************************************************)
(* The inputs the model draws from.  Coordinates lie on the half-cell      *)
(* lattice: LatticeCoord(origin, h) is origin + h * (gridmet_cs / 2), so an*)
(* even h >= 0 is the lower left corner of cell h / 2 on that axis and an  *)
(* odd h > 0 is the middle of a cell.                                      *)
(***************************************************************************)
MaxStations == 2
MaxCells == 2
MaxStep == 4

LatticeCoord(origin, h) == fadd(origin, fmul(IntToF(h), fdiv(gridmet_cs, IntToF(2))))

LatticePoint(h) ==
    [lat |-> LatticeCoord(gridmet_lat, h[1]), lon |-> LatticeCoord(gridmet_lon, h[2])]

\* Lower left corners of grid cells, and station locations, in half cells
CellSteps == {<<0, 0>>, <<2, 0>>, <<4, 0>>, <<0, 2>>}
StationSteps == {<<1, 1>>, <<4, 1>>}

NaNPoint == [lat |-> FNaN, lon |-> FNaN]

\* minkowski_distance_p(x, y, 2): the sum of the squared coordinate differences
SumOfSquares(dlat, dlon) == fadd(fmul(dlat, dlat), fmul(dlon, dlon))

Dist2(x, y) ==
    Bind2(SumOfSquares, fabs(fsub(y.lat, x.lat)), fabs(fsub(y.lon, x.lon)))

(***************************************************************************)
(* The float computations over the model's points, each done once: the     *)
(* points themselves, gridMET_centroid of every corner, and the squared    *)
(* distance of every station to every centroid.  A run reads them from the *)
(* variable memo.                                                          *)
(***************************************************************************)
PointTable == [h \in CellSteps \cup StationSteps |-> LatticePoint(h)]

CentroidTable(point) ==
    [p \in {point[h] : h \in CellSteps} |-> gridMET_centroid(p.lat, p.lon)]

Dist2Table(point, centroid) ==
    [x \in {point[h] : h \in StationSteps},
     y \in {[lat |-> centroid[p].lat, lon |-> centroid[p].lon] : p \in DOMAIN centroid}
        |-> Dist2(x, y)]

MemoFrom(point) ==
    LET centroid == Bind1(CentroidTable, point)
    IN  [point |-> point, centroid |-> centroid,
         dist2 |-> Dist2Table(point, centroid)]

Memo == Bind1(MemoFrom, PointTable)

NoMemo == [point |-> <<>>, centroid |-> <<>>, dist2 |-> <<>>]

(***************************************************************************)
(* stations.merge(gridmet_meta, on='GRIDMET_ID') and the reindex: an inner *)
(* join in the order of the stations, one row for every pair of a station  *)
(* and a grid metadata row with the station's GRIDMET_ID.                  *)
(***************************************************************************)
OutRow(st, g) ==
    [GRIDMET_ID        |-> g.GRIDMET_ID,
     LAT               |-> g.LAT,
     LON               |-> g.LON,
     ELEV_M            |-> g.ELEV_M,
     FID               |-> st.FID,
     STATION_LAT       |-> st.STATION_LAT,
     STATION_LON       |-> st.STATION_LON,
     STATION_ELEV_M    |-> st.STATION_ELEV_M,
     STATION_FILE_PATH |-> st.STATION_FILE_PATH]

RECURSIVE RowsOfStation(_, _, _)
RowsOfStation(st, meta, j) ==
    IF j > Len(meta) THEN <<>>
    ELSE (IF meta[j].GRIDMET_ID = st.GRIDMET_ID[1]
          THEN <<OutRow(st, meta[j])>> ELSE <<>>)
         \o RowsOfStation(st, meta, j + 1)

RECURSIVE MergeFrom(_, _, _)
MergeFrom(list, meta, i) ==
    IF i > Len(list) THEN <<>>
    ELSE RowsOfStation(list[i], meta, 1) \o MergeFrom(list, meta, i + 1)

\* Pairs every station with every grid metadata row
CrossJoin(list, meta) ==
    [n \in 1..(Len(list) * Len(meta)) |->
        OutRow(list[((n - 1) \div Len(meta)) + 1], meta[((n - 1) % Len(meta)) + 1])]

Merge(list, meta) == MergeFrom(list, meta, 1)

(***************************************************************************)
(* The state: the input files and arguments of one invocation, and the     *)
(* position and data of main and join_station_to_gridmet.                  *)
(***************************************************************************)
VARIABLES
    station_csv,   \* the rows of the station list CSV
    gridmet_csv,   \* the rows of the grid metadata CSV
    gridmet_arg,   \* main's gridmet_meta_file argument, "" when not given
    existing,      \* the grid metadata paths that exist
    out_arg,       \* main's out_path argument and where it points
    tie,           \* which of equally near points the KDTree build returns
    memo,          \* the float computations over the model's points
    file_names,    \* os.listdir of the directory searched for station files
    out_file,      \* the output CSV on disk
    pc,            \* where the program is
    stations,      \* the stations DataFrame
    gridmet_pts,   \* the centroids the tree is built over
    index,         \* the station of the loop
    raised,        \* the exception that ended the run
    printed,       \* FIDs of the 'Failed to find matching gridMET info' messages
    did,           \* what the run has done so far
    run,           \* 1 for the first invocation, 2 for the second
    first,         \* how the first invocation ended
    cen,           \* a call of gridMET_centroid on its own
    paired_data,   \* daily_comparison: the rows of the input CSV
    compare        \* daily_comparison: where main is and what it has saved

vars == <<station_csv, gridmet_csv, gridmet_arg, existing, out_arg, tie, memo,
          file_names, out_file, pc, stations, gridmet_pts, index, raised,
          printed, did, run, first, cen, paired_data, compare>>

\* daily_comparison.py is a program of its own: prep_input.py leaves its state alone
comparison == <<paired_data, compare>>

inputs == <<station_csv, gridmet_csv, gridmet_arg, existing, out_arg, tie, memo>>

(***************************************************************************)
(* The nearest-neighbour query of scipy's KDTree over gridmet_pts: the     *)
(* position (from 0) of a point at the least distance from pt.  Which of   *)
(* several equally near points it returns is the library's choice; tie     *)
(* says whether the build keeps the first or the last one found.           *)
(***************************************************************************)
Distance(x, y) == memo.dist2[<<x, y>>]

RECURSIVE NearestFrom(_, _, _, _, _)
NearestFrom(pts, pt, t, i, best) ==
    IF i > Len(pts) THEN best
    ELSE LET c == FCmp(Distance(pt, pts[i]), Distance(pt, pts[best]))
         IN  IF c < 0 \/ (c = 0 /\ t = "last")
             THEN NearestFrom(pts, pt, t, i + 1, i)
             ELSE NearestFrom(pts, pt, t, i + 1, best)

\* Returns the first point whatever the distances
KDTreeNearestAlwaysFirst(pts, pt, t) == 0

\* tree.query(pt)[1] for the tree built over pts
KDTreeNearest(pts, pt, t) == NearestFrom(pts, pt, t, 2, 1) - 1

(***************************************************************************)
(* The inputs of a run                                                     *)
(***************************************************************************)
\* Station i of a station list: FID i, its own name, a location or empty cells
StationNames == <<"a", "b", "c", "d">>

StationCsvRow(i, pt) ==
    [FID |-> i, LATDECDEG |-> pt.lat, LONGDECDEG |-> pt.lon, Elev_m |-> 10 * i,
     FileName |-> <<StationNames[i], "_", "1">>]

StationPoints == {memo.point[h] : h \in StationSteps} \cup {NaNPoint}

StationLists ==
    UNION {{[i \in 1..n |-> StationCsvRow(i, f[i])] : f \in [1..n -> StationPoints]} :
              n \in 1..MaxStations}

\* The GRIDMET_ID columns of a table of n cells: the positions from 0, the
\* positions from 1, the positions reversed, one value throughout
IdColumns(n) ==
    {[i \in 1..n |-> i - 1], [i \in 1..n |-> i], [i \in 1..n |-> n - i],
     [i \in 1..n |-> 0]}

GridRow(i, id, c) == [GRIDMET_ID |-> id, LAT |-> c.lat, LON |-> c.lon, ELEV_M |-> 1000 + i]

CornerPoints == {memo.point[h] : h \in CellSteps}

GridTablesOf(sizes) ==
    UNION {{[i \in 1..n |-> GridRow(i, ids[i], f[i])] :
               f \in [1..n -> CornerPoints], ids \in IdColumns(n)} : n \in sizes}

GridTables == GridTablesOf(1..MaxCells)

\* The time series file of every station
StationFile(i) == <<StationNames[i], ".", "x">>
AllFiles == [i \in 1..MaxStations |-> StationFile(i)]

\* -g not given or given, and which of the two paths exist
MetaCases ==
    {[arg |-> "", existing |-> {gridmet_cell_data_csv}],
     [arg |-> "meta.csv", existing |-> {"meta.csv"}],
     [arg |-> "", existing |-> {"meta.csv"}],
     [arg |-> "meta.csv", existing |-> {gridmet_cell_data_csv}]}

\* -o not given, the output then lying outside the searched directory
NoOutArg == [given |-> FALSE, name |-> <<>>, in_dir |-> FALSE]

\* -o not given or given, and whether the output lies in the searched directory
OutArgs ==
    {NoOutArg,
     [given |-> FALSE, name |-> <<>>, in_dir |-> TRUE],
     [given |-> TRUE, name |-> <<"o">>, in_dir |-> TRUE],
     [given |-> TRUE, name |-> <<"a", "_", "o">>, in_dir |-> TRUE]}

NoFile == [exists |-> FALSE, rows |-> <<>>]
NoCall == [h |-> <<>>, lat |-> FZero, lon |-> FZero, ret |-> <<>>]
Nothing == [read |-> 0, centroid |-> 0, query |-> 0, write |-> 0]
NoFirst == [raised |-> "none", wrote |-> FALSE, rows |-> <<>>]

NoCompare == [pc |-> "idle", index |-> 0, month |-> 0, saved |-> {}, skipped |-> {}]

InitRun ==
    /\ paired_data = <<>>
    /\ compare = NoCompare
    /\ pc = "main"
    /\ stations = <<>>
    /\ gridmet_pts = <<>>
    /\ index = 0
    /\ raised = "none"
    /\ printed = {}
    /\ did = Nothing
    /\ run = 1
    /\ first = NoFirst
    /\ out_file = NoFile
    /\ cen = NoCall

Init ==
    /\ memo = Memo
    /\ station_csv \in StationLists
    /\ gridmet_csv \in GridTables
    /\ \E c \in MetaCases : gridmet_arg = c.arg /\ existing = c.existing
    /\ out_arg = NoOutArg
    /\ tie \in {"first", "last"}
    /\ file_names = AllFiles
    /\ InitRun

(***************************************************************************)
(* main, lines 29-37                                                       *)
(***************************************************************************)
gridmet_meta_file == IF gridmet_arg = "" THEN gridmet_cell_data_csv ELSE gridmet_arg

out_path == IF out_arg.given THEN out_arg.name ELSE merged_input_csv

\* Takes every path to exist
NeverChecked(path, paths) == TRUE

\* os.path.exists(path)
PathExists(path, paths) == path \in paths

MainRaise ==
    /\ pc = "main"
    /\ ~PathExists(gridmet_meta_file, existing)
    /\ pc' = "raised"
    /\ raised' = "FileNotFoundError"
    /\ UNCHANGED <<inputs, comparison, file_names, out_file, stations, gridmet_pts, index,
                   printed, did, run, first, cen>>

MainJoin ==
    /\ pc = "main"
    /\ PathExists(gridmet_meta_file, existing)
    /\ pc' = "read_station_list"
    /\ UNCHANGED <<inputs, comparison, file_names, out_file, stations, gridmet_pts, index,
                   raised, printed, did, run, first, cen>>

(***************************************************************************)
(* join_station_to_gridmet, line 158                                       *)
(***************************************************************************)
ReadStationList ==
    /\ pc = "read_station_list"
    /\ LET r == read_station_list(station_csv, file_names)
       IN  IF r.raised # "none"
           THEN /\ pc' = "raised"
                /\ raised' = r.raised
                /\ UNCHANGED stations
           ELSE /\ pc' = "centroids"
                /\ stations' = r.rows
                /\ UNCHANGED raised
    /\ did' = [did EXCEPT !.read = 1]
    /\ UNCHANGED <<inputs, comparison, file_names, out_file, gridmet_pts, index, printed,
                   run, first, cen>>

(***************************************************************************)
(* lines 159-164: pd.read_csv, the centroids and the tree                  *)
(***************************************************************************)
\* gridMET_centroid(pt[0], pt[1]) of a grid metadata row
Centroid(c) == memo.centroid[[lat |-> c.LAT, lon |-> c.LON]]

Centroids ==
    /\ pc = "centroids"
    /\ IF ~(gridmet_meta_file \in existing)
       THEN /\ pc' = "raised"
            /\ raised' = "FileNotFoundError"
            /\ UNCHANGED <<gridmet_pts, index, did>>
       ELSE LET pts == [i \in 1..Len(gridmet_csv) |-> Centroid(gridmet_csv[i])]
            IN  IF \E i \in 1..Len(pts) : pts[i].raised # "none"
                THEN /\ pc' = "raised"
                     /\ raised' = "ValueError"
                     /\ UNCHANGED <<gridmet_pts, index, did>>
                ELSE /\ pc' = "query"
                     /\ gridmet_pts' = [i \in 1..Len(pts) |->
                                           [lat |-> pts[i].lat, lon |-> pts[i].lon]]
                     /\ index' = 1
                     /\ did' = [did EXCEPT !.centroid = Len(pts)]
                     /\ UNCHANGED raised
    /\ UNCHANGED <<inputs, comparison, file_names, out_file, stations, printed, run, first, cen>>

(***************************************************************************)
(* lines 166-176: one station of the loop.  The query raises for a station *)
(* whose coordinates are not finite, and the except clause prints its FID. *)
(***************************************************************************)
QueryRaises(row) == row.STATION_LAT = FNaN \/ row.STATION_LON = FNaN

LoopPc == IF index = Len(stations) THEN "merge" ELSE "query"

QueryStation ==
    /\ pc = "query"
    /\ ~QueryRaises(stations[index])
    /\ LET row == stations[index]
           pt  == [lat |-> row.STATION_LAT, lon |-> row.STATION_LON]
           ind == KDTreeNearest(gridmet_pts, pt, tie)
       IN  stations' = [stations EXCEPT ![index].GRIDMET_ID = <<ind>>]
    /\ index' = index + 1
    /\ pc' = LoopPc
    /\ did' = [did EXCEPT !.query = @ + 1]
    /\ UNCHANGED <<inputs, comparison, file_names, out_file, gridmet_pts, raised, printed,
                   run, first, cen>>

\* The except clause ends the loop instead of going on to the next station
QueryFailsAndBreaks ==
    /\ pc = "query"
    /\ QueryRaises(stations[index])
    /\ printed' = printed \cup {stations[index].FID}
    /\ pc' = "merge"
    /\ did' = [did EXCEPT !.query = @ + 1]
    /\ UNCHANGED <<inputs, comparison, file_names, out_file, stations, gridmet_pts, index,
                   raised, run, first, cen>>

QueryFails ==
    /\ pc = "query"
    /\ QueryRaises(stations[index])
    /\ printed' = printed \cup {stations[index].FID}
    /\ index' = index + 1
    /\ pc' = LoopPc
    /\ did' = [did EXCEPT !.query = @ + 1]
    /\ UNCHANGED <<inputs, comparison, file_names, out_file, stations, gridmet_pts, raised,
                   run, first, cen>>

(***************************************************************************)
(* lines 177-192: astype(int), merge, reindex, to_csv.  The GRIDMET_ID     *)
(* column exists once one station was assigned; a station never assigned   *)
(* holds NaN in it, which astype(int) refuses.                             *)
(***************************************************************************)
HasColumn(list) == \E i \in 1..Len(list) : list[i].GRIDMET_ID # NaNId

HasNaN(list) == \E i \in 1..Len(list) : list[i].GRIDMET_ID = NaNId

InsertAt(seq, p, x) == SubSeq(seq, 1, p) \o <<x>> \o SubSeq(seq, p + 1, Len(seq))

MergeRaises ==
    /\ pc = "merge"
    /\ ~HasColumn(stations) \/ HasNaN(stations)
    /\ pc' = "raised"
    /\ raised' = IF ~HasColumn(stations) THEN "AttributeError" ELSE "ValueError"
    /\ UNCHANGED <<inputs, comparison, file_names, out_file, stations, gridmet_pts, index,
                   printed, did, run, first, cen>>

MergeWrites ==
    /\ pc = "merge"
    /\ HasColumn(stations) /\ ~HasNaN(stations)
    /\ out_file' = [exists |-> TRUE, rows |-> Merge(stations, gridmet_csv)]
    /\ IF out_arg.in_dir /\ \A i \in 1..Len(file_names) : file_names[i] # out_path
       THEN \E p \in 0..Len(file_names) : file_names' = InsertAt(file_names, p, out_path)
       ELSE UNCHANGED file_names
    /\ pc' = "done"
    /\ did' = [did EXCEPT !.write = 1]
    /\ UNCHANGED <<inputs, comparison, stations, gridmet_pts, index, raised, printed, run,
                   first, cen>>

Next ==
    \/ MainRaise
    \/ MainJoin
    \/ ReadStationList
    \/ Centroids
    \/ QueryStation
    \/ QueryFails
    \/ MergeRaises
    \/ MergeWrites

Spec == Init /\ [][Next]_vars

(***************************************************************************)
(* A second invocation on the same inputs.  What the first one left on     *)
(* disk stays: the output file and the listing of the searched directory.  *)
(***************************************************************************)
Rerun ==
    /\ run = 1
    /\ pc \in {"done", "raised"}
    /\ first' = [raised |-> raised, wrote |-> out_file.exists, rows |-> out_file.rows]
    /\ run' = 2
    /\ pc' = "main"
    /\ stations' = <<>>
    /\ gridmet_pts' = <<>>
    /\ index' = 0
    /\ raised' = "none"
    /\ printed' = {}
    /\ did' = Nothing
    /\ UNCHANGED <<inputs, comparison, file_names, out_file, cen>>

InitTwice ==
    /\ memo = Memo
    /\ station_csv \in StationLists
    /\ gridmet_csv \in GridTablesOf({1})
    /\ \E c \in MetaCases : gridmet_arg = c.arg /\ existing = c.existing
    /\ out_arg \in OutArgs
    /\ tie \in {"first", "last"}
    /\ file_names = AllFiles
    /\ InitRun

NextTwice ==
    \/ Next
    \/ Rerun

SpecTwice == InitTwice /\ [][NextTwice]_vars

(***************************************************************************)
(* gridMET_centroid called on its own, on every point of the half-cell     *)
(* lattice up to MaxStep half cells from the grid's origin on each axis.   *)
(***************************************************************************)
CentroidInputs ==
    {[h |-> <<hlat, hlon>>,
      lat |-> LatticeCoord(gridmet_lat, hlat),
      lon |-> LatticeCoord(gridmet_lon, hlon),
      ret |-> <<>>] : hlat \in -MaxStep..MaxStep, hlon \in -MaxStep..MaxStep}

InitCentroid ==
    /\ cen \in CentroidInputs
    /\ paired_data = <<>>
    /\ compare = NoCompare
    /\ pc = "call"
    /\ memo = NoMemo
    /\ station_csv = <<>>
    /\ gridmet_csv = <<>>
    /\ gridmet_arg = ""
    /\ existing = {}
    /\ out_arg = NoOutArg
    /\ tie = "first"
    /\ file_names = <<>>
    /\ stations = <<>>
    /\ gridmet_pts = <<>>
    /\ index = 0
    /\ raised = "none"
    /\ printed = {}
    /\ did = Nothing
    /\ run = 1
    /\ first = NoFirst
    /\ out_file = NoFile

CallCentroid ==
    /\ pc = "call"
    /\ LET r == gridMET_centroid(cen.lat, cen.lon)
       IN  /\ cen' = [cen EXCEPT !.ret = <<[lat |-> r.lat, lon |-> r.lon]>>]
           /\ raised' = r.raised
    /\ pc' = "returned"
    /\ UNCHANGED <<inputs, comparison, file_names, out_file, stations, gridmet_pts, index,
                   printed, did, run, first>>

NextCentroid == CallCentroid

SpecCentroid == InitCentroid /\ [][NextCentroid]_vars

(***************************************************************************)
(* A run on a searched directory that may lack the time series file of a   *)
(* station: every listing made of some of the station files, in any order. *)
(***************************************************************************)
Listings ==
    {l \in UNION {[1..n -> {StationFile(i) : i \in 1..MaxStations}] : n \in 0..MaxStations} :
        \A i, j \in 1..Len(l) : i # j => l[i] # l[j]}

InitFiles ==
    /\ memo = Memo
    /\ station_csv \in StationLists
    /\ gridmet_csv \in GridTablesOf({1})
    /\ \E c \in MetaCases : gridmet_arg = c.arg /\ existing = c.existing
    /\ out_arg = NoOutArg
    /\ tie = "first"
    /\ file_names \in Listings
    /\ InitRun

SpecFiles == InitFiles /\ [][Next]_vars

(***************************************************************************)
(* daily_comparison.main: for every row of the input CSV with both data    *)
(* files present, the months 1..12 in turn; a month is skipped or its      *)
(* comparison plots are saved.  A row gives whether its two files exist    *)
(* and how many observations the merged data holds in every month.         *)
(***************************************************************************)
MaxRows == 2
MaxObs == 6

\* range(1,13)
Months == 1..12

\* The observations of the months: a in the odd months, b in the even ones
MonthlyCounts(a, b) == [m \in Months |-> IF m % 2 = 1 THEN a ELSE b]

PairedRows ==
    {[station_file |-> TRUE, grid_file |-> TRUE, obs |-> MonthlyCounts(a, b)] :
        a \in 0..MaxObs, b \in 0..MaxObs}
    \cup {[station_file |-> FALSE, grid_file |-> TRUE, obs |-> MonthlyCounts(0, 0)],
          [station_file |-> TRUE, grid_file |-> FALSE, obs |-> MonthlyCounts(0, 0)]}

InitCompare ==
    /\ paired_data \in UNION {[1..n -> PairedRows] : n \in 1..MaxRows}
    /\ compare = [pc |-> "station", index |-> 1, month |-> 0, saved |-> {}, skipped |-> {}]
    /\ pc = "compare"
    /\ cen = NoCall
    /\ memo = NoMemo
    /\ station_csv = <<>>
    /\ gridmet_csv = <<>>
    /\ gridmet_arg = ""
    /\ existing = {}
    /\ out_arg = NoOutArg
    /\ tie = "first"
    /\ file_names = <<>>
    /\ stations = <<>>
    /\ gridmet_pts = <<>>
    /\ index = 0
    /\ raised = "none"
    /\ printed = {}
    /\ did = Nothing
    /\ run = 1
    /\ first = NoFirst
    /\ out_file = NoFile

prep_input == <<inputs, file_names, out_file, pc, stations, gridmet_pts, index,
                raised, printed, did, run, first, cen>>

\* lines 51-81: the next row; `continue` when one of its files does not exist
CompareStation ==
    /\ compare.pc = "station"
    /\ LET row == paired_data[compare.index]
       IN  IF ~row.station_file \/ ~row.grid_file
           THEN compare' = [compare EXCEPT
                               !.index = @ + 1,
                               !.pc = IF compare.index = Len(paired_data)
                                      THEN "done" ELSE "station"]
           ELSE compare' = [compare EXCEPT !.pc = "month", !.month = 1]
    /\ UNCHANGED <<prep_input, paired_data>>

\* len(monthly_data.index) <= 5
TooFewObservations(n) == n <= 5

\* The position after a month: the next month, the next row or the end
AfterMonth(c) ==
    IF c.month < 12 THEN [c EXCEPT !.month = @ + 1]
    ELSE [c EXCEPT !.month = 0, !.index = @ + 1,
                   !.pc = IF c.index = Len(paired_data) THEN "done" ELSE "station"]

\* lines 109-116: a month that is skipped
SkipMonth ==
    /\ compare.pc = "month"
    /\ TooFewObservations(paired_data[compare.index].obs[compare.month])
    /\ compare' = AfterMonth([compare EXCEPT
                                 !.skipped = @ \cup {<<compare.index, compare.month>>}])
    /\ UNCHANGED <<prep_input, paired_data>>

\* lines 109-233: a month whose plots are saved
SaveMonth ==
    /\ compare.pc = "month"
    /\ ~TooFewObservations(paired_data[compare.index].obs[compare.month])
    /\ compare' = AfterMonth([compare EXCEPT
                                 !.saved = @ \cup {<<compare.index, compare.month>>}])
    /\ UNCHANGED <<prep_input, paired_data>>

NextCompare ==
    \/ CompareStation
    \/ SkipMonth
    \/ SaveMonth

SpecCompare == InitCompare /\ [][NextCompare]_vars

(***************************************************************************)
(* The claims                                                              *)
(***************************************************************************)
\* C1: every position the nearest-neighbour query assigned to a station is a
\* position of the centroid list, and no centroid of the list is strictly
\* closer to the station than the one at that position.
C1_QueryReturnsNearest ==
    \A k \in 1..Len(stations) :
        stations[k].GRIDMET_ID # NaNId =>
            LET ind == stations[k].GRIDMET_ID[1]
                pt  == [lat |-> stations[k].STATION_LAT, lon |-> stations[k].STATION_LON]
            IN  /\ ind \in 0..(Len(gridmet_pts) - 1)
                /\ \A j \in 1..Len(gridmet_pts) :
                       ~FLt(Distance(pt, gridmet_pts[j]), Distance(pt, gridmet_pts[ind + 1]))

\* A station was assigned the second of two centroids, the first being farther
C1_Witness ==
    /\ Len(gridmet_pts) = 2
    /\ \E k \in 1..Len(stations) :
           /\ stations[k].GRIDMET_ID = <<1>>
           /\ LET pt == [lat |-> stations[k].STATION_LAT, lon |-> stations[k].STATION_LON]
              IN  FLt(Distance(pt, gridmet_pts[2]), Distance(pt, gridmet_pts[1]))

\* C8: when the grid metadata file does not exist the run does nothing but
\* raise FileNotFoundError: no station list read, no centroid computed, no
\* query made, no output file written.
C8_MissingMetadataRaisesFirst ==
    gridmet_meta_file \notin existing =>
        /\ did = Nothing
        /\ ~out_file.exists
        /\ pc \in {"main", "raised"}
        /\ pc = "raised" => raised = "FileNotFoundError"

\* main has raised for a missing grid metadata file
C8_Witness ==
    /\ gridmet_meta_file \notin existing
    /\ pc = "raised"
    /\ raised = "FileNotFoundError"


\* C2: a run in which the query failed for some station still ends with the
\* output table written, holding no row of a failed station and a row of
\* every station whose query succeeded.
C2_FailedStationsAreSkipped ==
    (pc \in {"done", "raised"} /\ printed # {}) =>
        /\ pc = "done"
        /\ out_file.exists
        /\ \A n \in 1..Len(out_file.rows) : out_file.rows[n].FID \notin printed
        /\ \A k \in 1..Len(stations) :
               stations[k].FID \notin printed =>
                   \E n \in 1..Len(out_file.rows) : out_file.rows[n].FID = stations[k].FID

\* C3: every output row carries the GRIDMET_ID, LAT, LON and ELEV_M of a grid
\* metadata row whose centroid is nearest to the row's station (stated for the
\* grid metadata tables whose GRIDMET_ID values are distinct).
C3_RowHoldsNearestCell ==
    (/\ pc = "done"
     /\ \A i, j \in 1..Len(gridmet_csv) :
            i # j => gridmet_csv[i].GRIDMET_ID # gridmet_csv[j].GRIDMET_ID) =>
        \A n \in 1..Len(out_file.rows) :
            LET r  == out_file.rows[n]
                pt == [lat |-> r.STATION_LAT, lon |-> r.STATION_LON]
            IN  \E j \in 1..Len(gridmet_csv) :
                    /\ r.GRIDMET_ID = gridmet_csv[j].GRIDMET_ID
                    /\ r.LAT = gridmet_csv[j].LAT
                    /\ r.LON = gridmet_csv[j].LON
                    /\ r.ELEV_M = gridmet_csv[j].ELEV_M
                    /\ \A i \in 1..Len(gridmet_pts) :
                           ~FLt(Distance(pt, gridmet_pts[i]), Distance(pt, gridmet_pts[j]))

\* C5: the written output holds exactly one row for every station whose
\* query succeeded.
C5_OneRowPerMatchedStation ==
    pc = "done" =>
        \A k \in 1..Len(stations) :
            stations[k].GRIDMET_ID # NaNId =>
                Cardinality({n \in 1..Len(out_file.rows) :
                                out_file.rows[n].FID = stations[k].FID}) = 1

\* C6: with distinct GRIDMET_ID values in the grid metadata, a station is in at
\* most one output row, and every output row carries the LAT, LON and ELEV_M of
\* the one grid metadata row with the row's GRIDMET_ID.
C6_AtMostOneRowCorrectlyJoined ==
    (/\ pc = "done"
     /\ \A i, j \in 1..Len(gridmet_csv) :
            i # j => gridmet_csv[i].GRIDMET_ID # gridmet_csv[j].GRIDMET_ID) =>
        /\ \A k \in 1..Len(stations) :
               Cardinality({n \in 1..Len(out_file.rows) :
                               out_file.rows[n].FID = stations[k].FID}) <= 1
        /\ \A n \in 1..Len(out_file.rows) :
               LET r     == out_file.rows[n]
                   cells == {j \in 1..Len(gridmet_csv) :
                                gridmet_csv[j].GRIDMET_ID = r.GRIDMET_ID}
               IN  /\ Cardinality(cells) = 1
                   /\ \A j \in cells : /\ r.LAT = gridmet_csv[j].LAT
                                       /\ r.LON = gridmet_csv[j].LON
                                       /\ r.ELEV_M = gridmet_csv[j].ELEV_M

\* The output was written for two cells with distinct GRIDMET_IDs whose
\* centroids are equally near to a station, and holds a row of that station
C6_Witness ==
    /\ pc = "done"
    /\ Len(gridmet_csv) = 2
    /\ gridmet_csv[1].GRIDMET_ID # gridmet_csv[2].GRIDMET_ID
    /\ \E k \in 1..Len(stations) :
           LET pt == [lat |-> stations[k].STATION_LAT, lon |-> stations[k].STATION_LON]
           IN  /\ FCmp(Distance(pt, gridmet_pts[1]), Distance(pt, gridmet_pts[2])) = 0
               /\ \E n \in 1..Len(out_file.rows) : out_file.rows[n].FID = stations[k].FID

\* C7: one station with a location, one grid cell and an existing grid
\* metadata file: the run ends with the output written, its one row pairing
\* the station with the cell.
C7_OneStationOneCell ==
    (/\ pc \in {"done", "raised"}
     /\ Len(station_csv) = 1
     /\ Len(gridmet_csv) = 1
     /\ station_csv[1].LATDECDEG # FNaN
     /\ gridmet_meta_file \in existing) =>
        /\ pc = "done"
        /\ Len(out_file.rows) = 1
        /\ out_file.rows[1].FID = station_csv[1].FID
        /\ out_file.rows[1].GRIDMET_ID = gridmet_csv[1].GRIDMET_ID
        /\ out_file.rows[1].ELEV_M = gridmet_csv[1].ELEV_M


\* C9: a second run on the same inputs ends as the first one did and leaves
\* the same output table, provided the first run's output file is not a file
\* of the searched directory whose name contains a station's name.
C9_SecondRunSameOutput ==
    (/\ run = 2
     /\ pc \in {"done", "raised"}
     /\ ~(/\ out_arg.in_dir
          /\ \E k \in 1..Len(station_csv) :
                 Contains(out_path, SplitFirst(station_csv[k].FileName)))) =>
        /\ raised = first.raised
        /\ out_file.exists = first.wrote
        /\ out_file.rows = first.rows

\* Both runs wrote the output, the first one into the searched directory
C9_Witness ==
    /\ run = 2
    /\ pc = "done"
    /\ first.wrote
    /\ out_arg.in_dir
    /\ \E i \in 1..Len(file_names) : file_names[i] = out_path
    /\ ~\E k \in 1..Len(station_csv) :
            Contains(out_path, SplitFirst(station_csv[k].FileName))

\* C9 as the specification states it: a second run on the same inputs ends as
\* the first one did and leaves the same output table.
C9_AnySecondRunSameOutput ==
    (run = 2 /\ pc \in {"done", "raised"}) =>
        /\ raised = first.raised
        /\ out_file.exists = first.wrote
        /\ out_file.rows = first.rows

\* C4: for a corner on the lattice at or above the origin on both axes,
\* gridMET_centroid returns a point c with corner <= c < corner + cell size
\* on both axes.
C4_CentroidInsideItsCell ==
    (/\ pc = "returned"
     /\ cen.h[1] >= 0 /\ cen.h[1] % 2 = 0
     /\ cen.h[2] >= 0 /\ cen.h[2] % 2 = 0) =>
        /\ raised = "none"
        /\ FLe(cen.lat, cen.ret[1].lat)
        /\ FLt(cen.ret[1].lat, fadd(cen.lat, gridmet_cs))
        /\ FLe(cen.lon, cen.ret[1].lon)
        /\ FLt(cen.ret[1].lon, fadd(cen.lon, gridmet_cs))

\* C10: for every input, gridMET_centroid raises no error and returns a point
\* near the input on each axis (checked with a whole cell size of distance
\* allowed, twice the half cell size of the claim).
C10_CentroidNearTheInput ==
    pc = "returned" =>
        /\ raised = "none"
        /\ FLe(fabs(fsub(cen.ret[1].lat, cen.lat)), gridmet_cs)
        /\ FLe(fabs(fsub(cen.ret[1].lon, cen.lon)), gridmet_cs)


\* C11: a failed query does not stop the station loop.  While the loop runs,
\* the stations before the current one were each attempted once; once it has
\* ended, every station was attempted once.  Every attempted station whose
\* query failed has its FID printed and no GRIDMET_ID, and every other
\* attempted station holds the position the query returns for it alone.
C11_FailedQueryDoesNotStopTheLoop ==
    did.centroid > 0 =>
        /\ pc = "query" => did.query = index - 1
        /\ pc # "query" => did.query = Len(stations) /\ index = Len(stations) + 1
        /\ \A k \in 1..Len(stations) :
               k < index =>
                   LET row == stations[k]
                       pt  == [lat |-> row.STATION_LAT, lon |-> row.STATION_LON]
                   IN  IF QueryRaises(row)
                       THEN row.FID \in printed /\ row.GRIDMET_ID = NaNId
                       ELSE row.GRIDMET_ID = <<KDTreeNearest(gridmet_pts, pt, tie)>>

\* The loop has ended: the query failed for the first of two stations and
\* the second one was matched
C11_Witness ==
    /\ pc = "merge"
    /\ Len(stations) = 2
    /\ stations[1].FID \in printed
    /\ stations[2].GRIDMET_ID # NaNId


\* C12: read_station_list returns the station list also when no listed file
\* name contains the name of some station: no IndexError is raised, every
\* station is in the returned list, a station with a matching file holds the
\* absolute path of the first such file and a station without one is left
\* as it was.
C12_StationWithoutFileIsSkipped ==
    did.read = 1 =>
        /\ raised # "IndexError"
        /\ pc = "centroids" =>
               /\ Len(stations) = Len(station_csv)
               /\ \A k \in 1..Len(stations) :
                      LET station == SplitFirst(station_csv[k].FileName)
                          found   == MatchingFiles(file_names, station)
                      IN  stations[k].STATION_FILE_PATH =
                              IF Len(found) = 0 THEN station ELSE AbsPath(found[1])


\* C13: of the months main has passed for a row with both files, exactly
\* those with less than 5 observations were skipped, and every month with 5
\* or more observations has its plot file saved.
C13_MonthSkippedExactlyBelowFive ==
    \A i \in 1..Len(paired_data) : \A m \in Months :
        <<i, m>> \in compare.saved \cup compare.skipped =>
            /\ <<i, m>> \in compare.skipped <=> paired_data[i].obs[m] < 5
            /\ paired_data[i].obs[m] >= 5 => <<i, m>> \in compare.saved

=============================================================================
